---- MODULE Spec2Model ----
(***************************************************************************)
(* ds_broadcaster: the channel registry (registry.py) and the broadcaster  *)
(* (broadcaster.py) as a state machine.                                    *)
(*                                                                         *)
(* Execution contexts:                                                     *)
(*   - the home loop: one asyncio loop; a coroutine on it runs without     *)
(*     interleaving of other loop coroutines between two awaits;           *)
(*   - non-home threads (sync views in the thread pool): every registry    *)
(*     call (one mutex acquisition) and every call_soon_threadsafe is one  *)
(*     step and interleaves freely with the loop.                          *)
(***************************************************************************)
EXTENDS Integers, Sequences, FiniteSets, TLC

\* ---------------------------------------------------------------- bounds
MaxOps   == 4       \* calls of the public API in Spec
MaxCalls == 2       \* calls of the public API in SpecPresence
MaxStream == 3      \* calls of the public API in SpecStream
MaxDisc  == 4       \* calls of the public API in SpecDisconnect
MaxLive  == 3       \* calls of the public API in SpecLive
MaxLoop  == 3       \* calls of the public API in SpecLoop
MaxNotify == 2      \* calls of the public API in SpecNotify
MaxLoops == 3       \* calls of the public API in SpecLoops
MaxAtomic == 3      \* calls of the public API in SpecAtomic
MaxShapes == 2      \* calls of the public API in SpecShapes
MaxHeart == 3       \* calls of the public API in SpecHeartbeat
MaxBeat  == 2       \* heartbeats sent on one stream in SpecHeartbeat
MaxLock  == 2       \* calls of the public API in SpecLock

\* ---------------------------------------------------------------- domains
Chans      == {"a", "b"}
Queues     == 1..MaxOps      \* one asyncio.Queue per connect call
Threads    == {"t1"}
None       == "None"
Callbacks  == {"f"}               \* presence callbacks (function values)
CbOpt      == Callbacks \cup {None}
NoPk       == -1                   \* a principal without a pk attribute
Principals == {NoPk, 1}
NoLoop     == "NoLoop"
HomeLoop   == "L1"
OtherLoop  == "L2"                 \* a second loop that accepts connections
Loops      == {HomeLoop, OtherLoop}
LoopProc   == "loop"               \* the home loop as a context that locks
Worker     == "w"                  \* the worker thread that runs callbacks
Procs      == {LoopProc, Worker}
LoopCtx    == "loop"               \* the home loop as a publishing context
CLOSE      == <<"close", "-", 0, "-">>   \* the sentinel _CLOSE
HEARTBEAT  == <<"ping", "-", 0, "-">>    \* the comment frame HEARTBEAT
\* what a presence callback does: it returns markup, signals, both, a pair
\* without markup, a pair without signals or something empty, or it raises
Results    == {"html", "dict", "both", "nonesig", "htmlnone", "empty", "raise"}

VARIABLES
    channels,        \* registry._channels       : name -> set of queues
    channel_config,  \* registry._channel_config : name -> presence_callback
    queue_info,      \* registry._queue_info     : queue -> user id
    loop,            \* registry._loop
    queue,           \* contents of each asyncio.Queue
    ready,           \* callbacks posted by call_soon_threadsafe, FIFO
    conn,            \* per connection: the _connect coroutine / event_stream
                     \*   st: free, auser (awaiting request.auser()), resp (the
                     \*       response is returned, event_stream() not yet
                     \*       iterated), open, done
                     \*   ch, cb: the arguments channel and presence_callback
                     \*   exit: how the stream ended (close: _CLOSE, cancel)
                     \*   lp: the loop the coroutine runs on
    out,             \* per connection: what event_stream has yielded
    thr,             \* per non-home thread: the call it is executing
    pres,            \* presence tasks created by _broadcast_presence: the
                     \*   arguments of the callback (ch, uids), the callback
                     \*   (cb), the event that triggered it (key), where the
                     \*   callback runs (ctx) and, as history, the
                     \*   registrations at that time (at)
    nops,            \* public API calls made so far
    enq,             \* history: every item ever put on each queue
    pubs,            \* history: frame -> channel, context, members at the call
    destroyed,       \* history: queues unregistered by registry.destroy
    hadSub,          \* history: the channel incarnation has had a subscriber
    closed,          \* the loops for which loop.is_closed() holds
    ready2,          \* callbacks posted to OtherLoop, FIFO (ready: HomeLoop)
    closing,         \* history: queues registered for the user of a
                     \*   disconnect call on its channel at the call
    misput,          \* history: queues that had a put_nowait executed on a
                     \*   loop other than the one their connection runs on
    lock,            \* registry._lock: the context that holds it, or "-"
    proc,            \* per context, where registry calls are followed
                     \*   statement by statement: the statements it has still
                     \*   to execute (steps) and its local variables: the
                     \*   config, user ids and queues the registry returned
    back             \* presence tasks whose callback has returned and whose
                     \*   result the loop has still to dispatch

vars == <<channels, channel_config, queue_info, loop, queue, ready, conn, out,
          thr, pres, nops, enq, pubs, destroyed, hadSub, closed, ready2,
          closing, misput, lock, proc, back>>

\* what only the environments with several loops, loop closure or recorded
\* disconnect calls change
auxVars == <<closed, ready2, closing, misput, lock, proc, back>>

\* what only the environment that follows the registry lock changes
lockVars == <<lock, proc, back>>

regVars  == <<channels, channel_config, queue_info, loop>>
histVars == <<enq, pubs, destroyed, hadSub>>

\* ---------------------------------------------------------------- helpers
Remove(f, k) == [x \in DOMAIN f \ {k} |-> f[x]]
Put(f, k, v) == (k :> v) @@ f

RECURSIVE Orders(_)
\* every order in which a Python set may be iterated
Orders(S) ==
    IF S = {} THEN {<<>>}
    ELSE UNION {{<<x>> \o s : s \in Orders(S \ {x})} : x \in S}

Range(s) == {s[i] : i \in 1..Len(s)}

Pos(s, x) == CHOOSE i \in 1..Len(s) : s[i] = x

\* ---------------------------------------------------------------- formatting.py
\* A frame is <<event type, origin, number, phase>>: the payload of a publish
\* call is named by the call's number, the payload of a presence dispatch by
\* the user ids the callback was given and by the connection and lifecycle
\* event that triggered it.
format_patch_elements(id) == <<"el">> \o id
format_patch_signals(id)  == <<"sig">> \o id
PubId(n)       == <<"pub", n, "-">>
\* the event a publish call formats from its payload (elements or signals)
Event(n)       == <<"ev">> \o PubId(n)
RECURSIVE Code(_)
\* what a presence callback computes from its list of user ids
Code(uids) == IF uids = <<>> THEN 0 ELSE (Head(uids) + 1) + 3 * Code(Tail(uids))
PresId(task)   == <<Code(task.uids), task.key[1], task.key[2]>>

\* ---------------------------------------------------------------- registry.py
get_loop == loop

\* mutant: the queues of every user of the channel
get_queues_for_user_AnyUser(c, u) == IF c \in DOMAIN channels THEN channels[c] ELSE {}

\* mutant: the snapshot holds the queues of every channel
get_queues_AllChannels(c) == UNION {channels[d] : d \in DOMAIN channels}

get_queues(c) == IF c \in DOMAIN channels THEN channels[c] ELSE {}

\* mutant: every channel is taken to have the callback f
get_config_Always(c) == "f"

get_config(c) == IF c \in DOMAIN channel_config THEN channel_config[c] ELSE None

\* get_users: one entry per queue of the channel, in set-iteration order
get_users(c, order) == [i \in 1..Len(order) |-> queue_info[order[i]]]

UserOrders(c) ==
    Orders({q \in get_queues(c) : q \in DOMAIN queue_info})

get_queues_for_user(c, u) ==
    {q \in get_queues(c) : q \in DOMAIN queue_info /\ queue_info[q] = u}

get_channels == DOMAIN channels

create_channels(c) ==
    IF c \notin DOMAIN channels THEN Put(channels, c, {}) ELSE channels

\* mutant: create overwrites the config of an existing channel
create_config_Overwrite(c, cb) == Put(channel_config, c, cb)

\* Broadcaster.new / _connect always pass presence_callback=..., so the
\* config dict is never empty and is stored whenever the channel is new.
create_config(c, cb) ==
    IF c \notin DOMAIN channels THEN Put(channel_config, c, cb) ELSE channel_config

destroy_channels(c) == Remove(channels, c)

\* mutant: destroy leaves the user ids of the channel's queues behind
destroy_queue_info_Keep(c) == queue_info

destroy_queue_info(c) ==
    [q \in DOMAIN queue_info \ get_queues(c) |-> queue_info[q]]

\* mutant: destroy leaves the config behind
destroy_config_Keep(c) == channel_config

destroy_config(c) == Remove(channel_config, c)

add_user_channels(c, q) == Put(channels, c, get_queues(c) \cup {q})

add_user_queue_info(q, u) == Put(queue_info, q, u)

\* mutant: remove_user keeps the channel when it becomes empty
remove_user_channels_KeepEmpty(c, q) ==
    IF c \in DOMAIN channels THEN Put(channels, c, channels[c] \ {q}) ELSE channels

remove_user_channels(c, q) ==
    IF c \in DOMAIN channels
    THEN IF channels[c] \ {q} = {}
         THEN Remove(channels, c)
         ELSE Put(channels, c, channels[c] \ {q})
    ELSE channels

remove_user_queue_info(q) == Remove(queue_info, q)

\* ---------------------------------------------------------------- broadcaster.py
\* loop is None or loop.is_closed()
LoopGone == get_loop = NoLoop \/ get_loop \in closed

Idle == [op |-> "idle", ch |-> "-", todo |-> {}, item |-> CLOSE, pc |-> "-"]

NewConn == [st |-> "free", ch |-> "-", cb |-> None, exit |-> "-", lp |-> "-"]

\* mutant: the user ids are passed on as get_users returned them
Dedup_Identity(s) == s

RECURSIVE Dedup(_)
\* list(dict.fromkeys(user_ids)): first occurrences, in order
Dedup(s) ==
    IF s = <<>> THEN <<>>
    ELSE LET d == Dedup(SubSeq(s, 1, Len(s) - 1))
         IN IF s[Len(s)] \in Range(d) THEN d ELSE Append(d, s[Len(s)])

UserId(p) == IF p = NoPk THEN 0 ELSE p

\* queue.put_nowait(item), item by item, for every queue of qs, on the loop.
\* The queue of a stream that has ended is never read again: its contents
\* are not tracked (enq still records the put).
PutNowait(qs, items) ==
    /\ queue' = [q \in Queues |-> IF q \in qs /\ conn[q].st # "done"
                                  THEN queue[q] \o items ELSE queue[q]]
    /\ enq'   = [q \in Queues |-> IF q \in qs THEN enq[q] \o items ELSE enq[q]]

\* the subscriber set of a channel
Members(c) == IF c \in DOMAIN channels THEN channels[c] ELSE {}

\* history of a publish call: its channel, its context and the channel's
\* subscriber set at the call (kept when there is a subscriber)
Record(frame, c, ctx) ==
    IF Members(c) = {} THEN pubs
    ELSE Put(pubs, frame, [ch |-> c, ctx |-> ctx, qs |-> Members(c)])

\* one more call of the public API
Call == nops' = nops + 1

Init ==
    /\ channels = <<>>
    /\ channel_config = <<>>
    /\ queue_info = <<>>
    /\ loop = NoLoop
    /\ queue = [q \in Queues |-> <<>>]
    /\ ready = <<>>
    /\ conn = [q \in Queues |-> NewConn]
    /\ out = [q \in Queues |-> <<>>]
    /\ thr = [t \in Threads |-> Idle]
    /\ pres = {}
    /\ nops = 0
    /\ enq = [q \in Queues |-> <<>>]
    /\ pubs = <<>>
    /\ destroyed = {}
    /\ hadSub = [c \in Chans |-> FALSE]
    /\ closed = {}
    /\ ready2 = <<>>
    /\ closing = {}
    /\ misput = {}
    /\ lock = "-"
    /\ proc = [p \in Procs |-> [steps |-> <<>>, cfg |-> None, uids |-> <<>>, qs |-> {}]]
    /\ back = {}

\* the history of channel incarnations, after a step on channel c
HadSub(c, added) ==
    [hadSub EXCEPT ![c] = /\ c \in DOMAIN channels'
                          /\ (added \/ (c \in DOMAIN channels /\ hadSub[c]))]

\* history: the user id of every subscriber registered on a channel
Registered(c) == [q \in Members(c) |-> queue_info[q]]

\* mutant: the callback is called where _broadcast_presence runs
PresenceContext_Inline(running) == "inline"

\* where the callback runs: in a worker thread, awaited by the task _run(),
\* when _broadcast_presence finds a running loop, inline when it finds none
PresenceContext(running) ==
    IF running # NoLoop THEN "worker" ELSE "inline"

\* mutant: _broadcast_presence finds no running loop
RunningLoop_None(q) == NoLoop

\* asyncio.get_running_loop() in the coroutine of connection q
RunningLoop(q) == IF conn[q].lp \in Loops THEN conn[q].lp ELSE NoLoop

\* _broadcast_presence(channel), called by the coroutine of connection
\* key[1] after the registry changed: reads the config and the users and
\* hands the callback over.
BroadcastPresence(key, c) ==
    \E ch \in {c} :
      LET callback == get_config(ch)'
      IN IF callback = None
         THEN pres' = pres
         ELSE \E order \in UserOrders(ch)' :
                pres' = pres \cup {[key |-> key, ch |-> ch, cb |-> callback,
                                    uids |-> Dedup(get_users(ch, order)'),
                                    ctx |-> PresenceContext(RunningLoop(key[1])),
                                    at |-> Registered(ch)']}

\* _connect, running on loop l, up to its await: set_loop, create
ConnectOn(l, q, c, cb) ==
    /\ conn[q].st = "free"
    /\ \A r \in Queues : r < q => conn[r].st # "free"
    /\ l \notin closed
    /\ Call
    /\ loop' = l
    /\ channels' = create_channels(c)
    /\ channel_config' = create_config(c, cb)
    /\ conn' = [conn EXCEPT ![q] = [st |-> "auser", ch |-> c, cb |-> cb,
                                    exit |-> "-", lp |-> l]]
    /\ hadSub' = HadSub(c, FALSE)
    /\ UNCHANGED <<queue_info, queue, ready, out, thr, pres, enq, pubs, destroyed>>

\* _connect on the home loop
ConnectBegin(q, c, cb) == ConnectOn(HomeLoop, q, c, cb)

\* _connect after request.auser(): _add_user, then the response that wraps
\* the generator event_stream() is returned; st is the state this leaves the
\* connection in
AddUser(q, p, st) ==
    /\ conn[q].st = "auser"
    /\ channels' = add_user_channels(conn[q].ch, q)
    /\ queue_info' = add_user_queue_info(q, UserId(p))
    /\ UNCHANGED <<channel_config, loop>>
    /\ BroadcastPresence(<<q, "conn">>, conn[q].ch)
    /\ conn' = [conn EXCEPT ![q].st = st]
    /\ hadSub' = HadSub(conn[q].ch, TRUE)
    /\ UNCHANGED <<queue, ready, out, thr, nops, enq, pubs, destroyed>>

\* _connect returns and the server starts to iterate the response at once
ConnectResume(q, p) == AddUser(q, p, "open")

\* _connect returns; the server has not yet asked the generator for an item
ConnectReturn(q, p) == AddUser(q, p, "resp")

\* the server asks for the first item: event_stream enters its try block
StreamStart(q) ==
    /\ conn[q].st = "resp"
    /\ conn' = [conn EXCEPT ![q].st = "open"]
    /\ UNCHANGED <<regVars, queue, ready, out, thr, pres, nops, histVars>>

\* the client goes away before the first item is asked for: the response is
\* closed, and closing a generator that was never started runs none of its
\* body, the finally clause included
ResponseClose(q) ==
    /\ conn[q].st = "resp"
    /\ conn' = [conn EXCEPT ![q] = [NewConn EXCEPT !.st = "done", !.exit = "unstarted"]]
    /\ UNCHANGED <<regVars, queue, ready, out, thr, pres, nops, histVars>>

\* the finally clause of event_stream: _remove_user(channel, queue)
RemoveUser(q, why) ==
    LET c == conn[q].ch
    IN /\ channels' = remove_user_channels(c, q)
       /\ queue_info' = remove_user_queue_info(q)
       /\ UNCHANGED <<channel_config, loop>>
       /\ \E ch \in {c} :
            IF get_queues(ch)' # {}
            THEN BroadcastPresence(<<q, "exit">>, ch)
            ELSE pres' = pres
       /\ conn' = [conn EXCEPT ![q] = [NewConn EXCEPT !.st = "done", !.exit = why]]
       /\ hadSub' = HadSub(c, FALSE)

\* mutant: a sentinel anywhere in the queue ends the stream at once
StreamEvent_CloseFirst(q) ==
    IF CLOSE \in Range(queue[q]) THEN CLOSE ELSE Head(queue[q])

\* the event that queue.get() returns
StreamEvent(q) == Head(queue[q])

\* event_stream: queue.get() returns an item
StreamNext(q) ==
    /\ conn[q].st = "open"
    /\ queue[q] # <<>>
    /\ IF StreamEvent(q) = CLOSE
       THEN /\ RemoveUser(q, "close")
            /\ queue' = [queue EXCEPT ![q] = <<>>]
            /\ out' = out
       ELSE /\ out' = [out EXCEPT ![q] = Append(@, StreamEvent(q))]
            /\ queue' = [queue EXCEPT ![q] = Tail(@)]
            /\ UNCHANGED <<regVars, pres, conn, hadSub>>
    /\ UNCHANGED <<ready, thr, nops, enq, pubs, destroyed>>

\* mutant: the wait may time out while an item is waiting in the queue
TimedOut_Always(q) == TRUE

\* asyncio.wait_for(queue.get(), timeout=HEARTBEAT_INTERVAL) raises
\* TimeoutError: get() has not returned for the whole interval, which it
\* does at once when the queue holds an item
TimedOut(q) == queue[q] = <<>>

\* the number of heartbeats in what a stream has yielded
Beats(s) == Cardinality({i \in 1..Len(s) : s[i] = HEARTBEAT})

\* event_stream: the wait times out, the heartbeat is yielded and the loop
\* goes back to waiting
StreamTimeout(q) ==
    /\ conn[q].st = "open"
    /\ TimedOut(q)
    /\ Beats(out[q]) < MaxBeat
    /\ out' = [out EXCEPT ![q] = Append(@, HEARTBEAT)]
    /\ UNCHANGED <<regVars, queue, ready, conn, thr, pres, nops, histVars>>

\* event_stream: the client went away (CancelledError / GeneratorExit)
ClientClose(q) ==
    /\ conn[q].st = "open"
    /\ RemoveUser(q, "cancel")
    /\ queue' = [queue EXCEPT ![q] = <<>>]
    /\ UNCHANGED <<ready, out, thr, nops, enq, pubs, destroyed>>

\* Broadcaster.new on a thread: registry.create
ThreadNew(t, c, cb) ==
    /\ thr[t].op = "idle"
    /\ Call
    /\ channels' = create_channels(c)
    /\ channel_config' = create_config(c, cb)
    /\ hadSub' = HadSub(c, FALSE)
    /\ UNCHANGED <<queue_info, loop, queue, ready, conn, out, thr, pres, enq, pubs,
                   destroyed>>

\* mutant: only the first queue of the snapshot is served
Begin_FirstOnly(op, c, qs, item) ==
    [op |-> op, ch |-> c, item |-> item, pc |-> "sched",
     todo |-> IF qs = {} THEN {} ELSE {CHOOSE q \in qs : TRUE}]

\* the snapshot and the guards of _put / disconnect / kill on a thread that
\* runs no loop: the per-queue call_soon_threadsafe calls are still to come
Begin(op, c, qs, item) ==
    [op |-> op, ch |-> c, todo |-> qs, item |-> item, pc |-> "sched"]

\* elements / signals called on a thread: _put up to its for loop
ThreadPublish(t, c) ==
    /\ thr[t].op = "idle"
    /\ Call
    /\ LET event == Event(nops + 1)
           queues == get_queues(c)
       IN /\ pubs' = Record(event, c, t)
          /\ thr' = IF queues = {} \/ LoopGone
                    THEN thr
                    ELSE [thr EXCEPT ![t] = Begin("pub", c, queues, event)]
    /\ UNCHANGED <<regVars, queue, ready, conn, out, pres, enq, destroyed,
                   hadSub>>

\* disconnect called on a thread, up to its for loop
ThreadDisconnect(t, c, u) ==
    /\ thr[t].op = "idle"
    /\ Call
    /\ LET queues == get_queues_for_user(c, u)
       IN thr' = IF queues = {} \/ LoopGone
                 THEN thr
                 ELSE [thr EXCEPT ![t] = Begin("disc", c, queues, CLOSE)]
    /\ UNCHANGED <<regVars, queue, ready, conn, out, pres, enq, pubs,
                   destroyed, hadSub>>

\* disconnect called on the home loop: the sentinels are put directly
LoopDisconnect(c, u) ==
    /\ loop = HomeLoop /\ HomeLoop \notin closed
    /\ Call
    /\ PutNowait(get_queues_for_user(c, u), <<CLOSE>>)
    /\ UNCHANGED <<regVars, ready, conn, out, thr, pres, pubs, destroyed, hadSub>>

\* kill called on a thread, up to its for loop
ThreadKill(t, c) ==
    /\ thr[t].op = "idle"
    /\ Call
    /\ LET queues == get_queues(c)
       IN thr' = IF queues # {} /\ ~LoopGone
                 THEN [thr EXCEPT ![t] = Begin("kill", c, queues, CLOSE)]
                 ELSE [thr EXCEPT ![t] = [Begin("kill", c, {}, CLOSE)
                                            EXCEPT !.pc = "destroy"]]
    /\ UNCHANGED <<regVars, queue, ready, conn, out, pres, enq, pubs,
                   destroyed, hadSub>>

\* mutant: the callback is posted ahead of the ones already posted
call_soon_threadsafe_Front(cb) == <<cb>> \o ready

\* where loop.call_soon_threadsafe puts the callback
call_soon_threadsafe(cb) == Append(ready, cb)

\* one iteration of the for loop: loop.call_soon_threadsafe(queue.put_nowait, x)
ThreadSched(t, q) ==
    /\ thr[t].pc = "sched"
    /\ q \in thr[t].todo
    /\ get_loop = HomeLoop /\ HomeLoop \notin closed
    /\ ready' = call_soon_threadsafe([q |-> q, item |-> thr[t].item])
    /\ thr' = [thr EXCEPT ![t] =
                 IF thr[t].todo = {q}
                 THEN IF thr[t].op = "kill" THEN [@ EXCEPT !.todo = {}, !.pc = "destroy"]
                                            ELSE Idle
                 ELSE [@ EXCEPT !.todo = @ \ {q}]]
    /\ UNCHANGED <<regVars, queue, conn, out, pres, nops, enq, pubs,
                   destroyed, hadSub>>

\* one iteration of the for loop when the loop has been closed since the
\* call checked loop.is_closed(): call_soon_threadsafe raises RuntimeError,
\* which ends the call (in kill, before registry.destroy)
ThreadSchedRaise(t) ==
    /\ thr[t].pc = "sched"
    /\ get_loop \in closed
    /\ thr' = [thr EXCEPT ![t] = [Idle EXCEPT !.pc = "RuntimeError"]]
    /\ UNCHANGED <<regVars, queue, ready, conn, out, pres, nops, enq, pubs,
                   destroyed, hadSub>>

\* the home loop ends and is closed: every coroutine on it has finished and
\* the callbacks it has not run are dropped
LoopClose ==
    /\ loop = HomeLoop /\ HomeLoop \notin closed
    /\ \A q \in Queues : conn[q].st \in {"free", "done"}
    /\ pres = {}
    /\ closed' = closed \cup {HomeLoop}
    /\ ready' = <<>>
    /\ UNCHANGED <<regVars, queue, conn, out, thr, pres, nops, enq, pubs,
                   destroyed, hadSub, ready2, closing, misput, lockVars>>

\* registry.destroy(channel)
Destroy(c) ==
    /\ channels' = destroy_channels(c)
    /\ queue_info' = destroy_queue_info(c)
    /\ channel_config' = destroy_config(c)
    /\ destroyed' = destroyed \cup get_queues(c)
    /\ hadSub' = HadSub(c, FALSE)
    /\ UNCHANGED loop

\* the last statement of kill on a thread
ThreadDestroy(t) ==
    /\ thr[t].pc = "destroy"
    /\ Destroy(thr[t].ch)
    /\ thr' = [thr EXCEPT ![t] = Idle]
    /\ UNCHANGED <<queue, ready, conn, out, pres, nops, enq, pubs>>

\* the loop runs the oldest posted callback: queue.put_nowait(item)
LoopRun ==
    /\ ready # <<>>
    /\ HomeLoop \notin closed
    /\ PutNowait({Head(ready).q}, <<Head(ready).item>>)
    /\ ready' = Tail(ready)
    /\ UNCHANGED <<regVars, conn, out, thr, pres, nops, pubs, destroyed,
                   hadSub>>

\* mutant: _put creates the channel it publishes to
LoopPublish_Creating(c) ==
    /\ loop = HomeLoop /\ HomeLoop \notin closed
    /\ Call
    /\ channels' = create_channels(c)
    /\ pubs' = Record(Event(nops + 1), c, LoopCtx)
    /\ PutNowait(get_queues(c), <<Event(nops + 1)>>)
    /\ UNCHANGED <<channel_config, queue_info, loop, ready, conn, out, thr,
                   pres, destroyed, hadSub>>

\* elements / signals called on the home loop: _put puts directly
LoopPublish(c) ==
    /\ loop = HomeLoop /\ HomeLoop \notin closed
    /\ Call
    /\ LET event == Event(nops + 1)
           queues == get_queues(c)
       IN /\ pubs' = Record(event, c, LoopCtx)
          /\ PutNowait(queues, <<event>>)
    /\ UNCHANGED <<regVars, ready, conn, out, thr, pres, destroyed, hadSub>>

\* mutant: nothing of the callback's result is published
Dispatch_Nothing(task, res) == <<>>

\* the queues of qs whose connection does not run on loop l
Foreign(l, qs) == {q \in qs : conn[q].st # "done" /\ conn[q].lp # l}

\* elements / signals called in a handler that runs on loop l: _put puts
\* directly when l is the recorded loop and posts one callback per queue to
\* the recorded loop when it is another one
PublishOn(l, c) ==
    /\ l \notin closed
    /\ Call
    /\ LET event == Event(nops + 1)
           queues == get_queues(c)
       IN /\ pubs' = Record(event, c, l)
          /\ IF queues = {} \/ LoopGone
             THEN UNCHANGED <<queue, enq, ready, ready2, misput>>
             ELSE IF l = get_loop
             THEN /\ PutNowait(queues, <<event>>)
                  /\ misput' = misput \cup Foreign(l, queues)
                  /\ UNCHANGED <<ready, ready2>>
             ELSE /\ \E s \in Orders(queues) :
                       LET cbs == [i \in 1..Len(s) |-> [q |-> s[i], item |-> event]]
                       IN IF get_loop = HomeLoop
                          THEN ready' = ready \o cbs /\ ready2' = ready2
                          ELSE ready2' = ready2 \o cbs /\ ready' = ready
                  /\ UNCHANGED <<queue, enq, misput>>
    /\ UNCHANGED <<regVars, conn, out, thr, pres, destroyed, hadSub, closed,
                   closing, lockVars>>

\* the loop l runs the oldest callback posted to it: queue.put_nowait(item)
LoopRunOn(l) ==
    /\ l \notin closed
    /\ LET fifo == IF l = HomeLoop THEN ready ELSE ready2
       IN /\ fifo # <<>>
          /\ PutNowait({Head(fifo).q}, <<Head(fifo).item>>)
          /\ misput' = misput \cup Foreign(l, {Head(fifo).q})
          /\ IF l = HomeLoop
             THEN ready' = Tail(ready) /\ ready2' = ready2
             ELSE ready2' = Tail(ready2) /\ ready' = ready
    /\ UNCHANGED <<regVars, conn, out, thr, pres, nops, pubs, destroyed,
                   hadSub, closed, closing, lockVars>>

\* mutant: the signals are published before the markup
Dispatch_SignalsFirst(task, res) ==
    (IF res \in {"dict", "both", "nonesig"}
     THEN <<format_patch_signals(PresId(task))>> ELSE <<>>)
    \o
    (IF res \in {"html", "both", "htmlnone"}
     THEN <<format_patch_elements(PresId(task))>> ELSE <<>>)

\* the pieces of a callback result that _dispatch publishes, in order
Dispatch(task, res) ==
    (IF res \in {"html", "both", "htmlnone"}
     THEN <<format_patch_elements(PresId(task))>> ELSE <<>>)
    \o
    (IF res \in {"dict", "both", "nonesig"}
     THEN <<format_patch_signals(PresId(task))>> ELSE <<>>)

\* the task _run(): the callback returns in a worker thread and its result
\* is dispatched on the loop, each piece by _put; when the callback raises,
\* the task ends with the exception and nothing is dispatched
PresRun(task, res) ==
    /\ task \in pres
    /\ pres' = pres \ {task}
    /\ LET events == Dispatch(task, res)
           queues == get_queues(task.ch)
       IN /\ PutNowait(queues, events)
          /\ pubs' = IF Members(task.ch) = {} THEN pubs
                     ELSE [e \in Range(events) |->
                             [ch |-> task.ch, ctx |-> LoopCtx, qs |-> Members(task.ch)]]
                          @@ pubs
    /\ UNCHANGED <<regVars, ready, conn, out, thr, nops, destroyed, hadSub>>

\* ------------------------------------------------- the registry lock
\* Where the lock is followed, a context executes a call statement by
\* statement: acq and rel are the entry and the exit of `with self._lock`,
\* the statements between them are the body of the registry method.
NoTask == [key |-> <<0, "-">>, ch |-> "-", cb |-> None, uids |-> <<>>,
           ctx |-> "-", at |-> <<>>]

NoStep == [k |-> "-", c |-> "-", q |-> 0, u |-> 0, cb |-> None,
           item |-> CLOSE, key |-> <<0, "-">>, task |-> NoTask]

Stmt(k, c) == [NoStep EXCEPT !.k = k, !.c = c]

\* the registry methods that write the maps, and those that read them
Writes == {"create", "add_user", "remove_user", "destroy"}
Reads  == {"get_config", "get_users", "get_queues"}

\* with self._lock: body
WithLock(body) == <<Stmt("acq", "-"), body, Stmt("rel", "-")>>

create_steps(c, cb)      == WithLock([Stmt("create", c) EXCEPT !.cb = cb])
add_user_steps(c, q, u)  == WithLock([Stmt("add_user", c) EXCEPT !.q = q, !.u = u])
remove_user_steps(c, q)  == WithLock([Stmt("remove_user", c) EXCEPT !.q = q])
destroy_steps(c)         == WithLock(Stmt("destroy", c))
get_config_steps(c)      == WithLock(Stmt("get_config", c))
get_users_steps(c)       == WithLock(Stmt("get_users", c))
get_queues_steps(c)      == WithLock(Stmt("get_queues", c))

\* the for loop of _put / kill: put_nowait on the loop, call_soon_threadsafe
\* on a thread
Enqueue(p, c, item) ==
    [Stmt(IF p = LoopProc THEN "put" ELSE "post", c) EXCEPT !.item = item]

\* mutant: _put enqueues inside the registry's lock
put_steps_Locked(p, c, item) ==
    <<Stmt("acq", "-"), Stmt("get_queues", c), Enqueue(p, c, item), Stmt("rel", "-")>>

\* _put(channel, event) in context p
put_steps(p, c, item) == get_queues_steps(c) \o <<Enqueue(p, c, item)>>

\* kill(channel) in context p
kill_steps(p, c) ==
    get_queues_steps(c) \o <<Enqueue(p, c, CLOSE)>> \o destroy_steps(c)

\* _broadcast_presence(channel) for the lifecycle event key
broadcast_presence_steps(c, key) ==
    get_config_steps(c) \o <<Stmt("ifnocb", c)>> \o get_users_steps(c)
    \o <<[Stmt("spawn", c) EXCEPT !.key = key]>>

\* _add_user(channel, queue, user)
add_steps(c, q, u) ==
    add_user_steps(c, q, u) \o broadcast_presence_steps(c, <<q, "conn">>)

\* _remove_user(channel, queue)
remove_steps(c, q) ==
    remove_user_steps(c, q) \o get_queues_steps(c) \o <<Stmt("ifnoqs", c)>>
    \o broadcast_presence_steps(c, <<q, "exit">>)

\* what a presence callback does before it returns: nothing with the
\* broadcaster, or a call of get_users, of elements / signals or of kill on
\* its own channel
Behaviours == {"plain", "users", "publish", "kill"}

callback_steps(beh, c, item) ==
    CASE beh = "plain"   -> <<>>
      [] beh = "users"   -> get_users_steps(c)
      [] beh = "publish" -> put_steps(Worker, c, item)
      [] beh = "kill"    -> kill_steps(Worker, c)

\* the statement a context executes next
Cur(p) == Head(proc[p].steps)

At(p, ks) == proc[p].steps # <<>> /\ Cur(p).k \in ks

Pop(p) == [proc EXCEPT ![p].steps = Tail(@)]

\* what no step of the contexts that are followed statement by statement
\* changes
lockRest == <<out, thr, pubs, closed, ready2, closing, misput>>

\* threading.Lock.acquire: blocks while the lock is held, by whomever
Acquire(p) ==
    /\ At(p, {"acq"})
    /\ lock = "-"
    /\ lock' = p
    /\ proc' = Pop(p)
    /\ UNCHANGED <<regVars, queue, ready, conn, pres, nops, enq, destroyed,
                   hadSub, back, lockRest>>

\* the end of the with block
Release(p) ==
    /\ At(p, {"rel"})
    /\ lock' = "-"
    /\ proc' = Pop(p)
    /\ UNCHANGED <<regVars, queue, ready, conn, pres, nops, enq, destroyed,
                   hadSub, back, lockRest>>

\* the body of create, add_user, remove_user or destroy
Write(p) ==
    /\ At(p, Writes)
    /\ LET st == Cur(p)
       IN /\ channels' =
               CASE st.k = "create"      -> create_channels(st.c)
                 [] st.k = "add_user"    -> add_user_channels(st.c, st.q)
                 [] st.k = "remove_user" -> remove_user_channels(st.c, st.q)
                 [] st.k = "destroy"     -> destroy_channels(st.c)
          /\ channel_config' =
               CASE st.k = "create"      -> create_config(st.c, st.cb)
                 [] st.k = "destroy"     -> destroy_config(st.c)
                 [] OTHER                -> channel_config
          /\ queue_info' =
               CASE st.k = "add_user"    -> add_user_queue_info(st.q, st.u)
                 [] st.k = "remove_user" -> remove_user_queue_info(st.q)
                 [] st.k = "destroy"     -> destroy_queue_info(st.c)
                 [] OTHER                -> queue_info
          /\ destroyed' = IF st.k = "destroy" THEN destroyed \cup get_queues(st.c)
                                               ELSE destroyed
          /\ hadSub' = HadSub(st.c, st.k = "add_user")
    /\ proc' = Pop(p)
    /\ UNCHANGED <<loop, lock, queue, ready, conn, pres, nops, enq, back, lockRest>>

\* the body of get_config, get_users or get_queues: the value returned
Read(p) ==
    /\ At(p, Reads)
    /\ LET st == Cur(p)
       IN \E order \in UserOrders(st.c) :
            proc' = [Pop(p) EXCEPT
                       ![p].cfg  = IF st.k = "get_config" THEN get_config(st.c) ELSE @,
                       ![p].uids = IF st.k = "get_users" THEN get_users(st.c, order) ELSE @,
                       ![p].qs   = IF st.k = "get_queues" THEN get_queues(st.c) ELSE @]
    /\ UNCHANGED <<regVars, lock, queue, ready, conn, pres, nops, enq, destroyed,
                   hadSub, back, lockRest>>

\* `if callback is None: return` and `if registry.get_queues(channel):`
Branch(p) ==
    /\ At(p, {"ifnocb", "ifnoqs"})
    /\ proc' = IF \/ Cur(p).k = "ifnocb" /\ proc[p].cfg = None
                  \/ Cur(p).k = "ifnoqs" /\ proc[p].qs = {}
               THEN [proc EXCEPT ![p].steps = <<>>]
               ELSE Pop(p)
    /\ UNCHANGED <<regVars, lock, queue, ready, conn, pres, nops, enq, destroyed,
                   hadSub, back, lockRest>>

\* loop.create_task(_run()): the callback is handed to the worker
Spawn(p) ==
    /\ At(p, {"spawn"})
    /\ pres' = pres \cup {[key |-> Cur(p).key, ch |-> Cur(p).c, cb |-> proc[p].cfg,
                            uids |-> Dedup(proc[p].uids),
                            ctx |-> PresenceContext(RunningLoop(Cur(p).key[1])),
                            at |-> Registered(Cur(p).c)]}
    /\ proc' = Pop(p)
    /\ UNCHANGED <<regVars, lock, queue, ready, conn, nops, enq, destroyed,
                   hadSub, back, lockRest>>

\* the for loop of _put / kill on the loop: queue.put_nowait
PutStep(p) ==
    /\ At(p, {"put"})
    /\ IF LoopGone THEN UNCHANGED <<queue, enq>>
                   ELSE PutNowait(proc[p].qs, <<Cur(p).item>>)
    /\ proc' = Pop(p)
    /\ UNCHANGED <<regVars, lock, ready, conn, pres, nops, destroyed, hadSub,
                   back, lockRest>>

\* the for loop of _put / kill on a thread: loop.call_soon_threadsafe
PostStep(p) ==
    /\ At(p, {"post"})
    /\ IF LoopGone THEN ready' = ready
       ELSE \E o \in Orders(proc[p].qs) :
              ready' = ready \o [i \in 1..Len(o) |-> [q |-> o[i], item |-> Cur(p).item]]
    /\ proc' = Pop(p)
    /\ UNCHANGED <<regVars, lock, queue, conn, pres, nops, enq, destroyed,
                   hadSub, back, lockRest>>

\* the callback returns: its result goes back to the task on the loop
Return(p) ==
    /\ At(p, {"return"})
    /\ back' = back \cup {Cur(p).task}
    /\ proc' = Pop(p)
    /\ UNCHANGED <<regVars, lock, queue, ready, conn, pres, nops, enq,
                   destroyed, hadSub, lockRest>>

\* the next statement of context p
Run(p) ==
    \/ Acquire(p)
    \/ Release(p)
    \/ Write(p)
    \/ Read(p)
    \/ Branch(p)
    \/ Spawn(p)
    \/ PutStep(p)
    \/ PostStep(p)
    \/ Return(p)

\* the loop is between two callbacks
LoopIdle == proc[LoopProc].steps = <<>>

Start(p, steps) == proc' = [proc EXCEPT ![p].steps = steps]

\* _connect up to its await
LockConnect(q, c, cb) ==
    /\ LoopIdle
    /\ conn[q].st = "free"
    /\ \A r \in Queues : r < q => conn[r].st # "free"
    /\ Call
    /\ loop' = HomeLoop
    /\ conn' = [conn EXCEPT ![q] = [st |-> "auser", ch |-> c, cb |-> cb,
                                    exit |-> "-", lp |-> HomeLoop]]
    /\ Start(LoopProc, create_steps(c, cb))
    /\ UNCHANGED <<channels, channel_config, queue_info, lock, queue, ready,
                   pres, enq, destroyed, hadSub, back, lockRest>>

\* _connect after its await
LockResume(q, u) ==
    /\ LoopIdle
    /\ conn[q].st = "auser"
    /\ conn' = [conn EXCEPT ![q].st = "open"]
    /\ Start(LoopProc, add_steps(conn[q].ch, q, UserId(u)))
    /\ UNCHANGED <<regVars, lock, queue, ready, pres, nops, enq, destroyed,
                   hadSub, back, lockRest>>

\* the client goes away: the finally clause of event_stream
LockExit(q) ==
    /\ LoopIdle
    /\ conn[q].st = "open"
    /\ conn' = [conn EXCEPT ![q].st = "done", ![q].exit = "cancel"]
    /\ Start(LoopProc, remove_steps(conn[q].ch, q))
    /\ UNCHANGED <<regVars, lock, queue, ready, pres, nops, enq, destroyed,
                   hadSub, back, lockRest>>

\* the task _run() goes on after its await: _dispatch(result), for markup
LockDispatch(task) ==
    /\ LoopIdle
    /\ task \in back
    /\ back' = back \ {task}
    /\ Start(LoopProc, put_steps(LoopProc, task.ch, format_patch_elements(PresId(task))))
    /\ UNCHANGED <<regVars, lock, queue, ready, conn, pres, nops, enq,
                   destroyed, hadSub, lockRest>>

\* the loop runs a callback that a thread has posted
LockLoopRun ==
    /\ LoopIdle
    /\ LoopRun
    /\ UNCHANGED <<lockVars, closed, ready2, closing, misput>>

\* the worker starts to run the callback of a task
LockCallback(task, beh) ==
    /\ proc[Worker].steps = <<>>
    /\ task \in pres
    /\ pres' = pres \ {task}
    /\ IF beh \in {"publish", "kill"} THEN nops < MaxLock /\ Call ELSE nops' = nops
    /\ Start(Worker, callback_steps(beh, task.ch, Event(nops + 1))
                     \o <<[Stmt("return", task.ch) EXCEPT !.task = task]>>)
    /\ UNCHANGED <<regVars, lock, queue, ready, conn, enq, destroyed, hadSub,
                   back, lockRest>>

\* steps of the broadcaster that are no call of the public API
Internal(Ps) ==
    \/ \E q \in Queues, p \in Ps : ConnectResume(q, p)
    \/ \E q \in Queues : StreamNext(q)
    \/ \E q \in Queues : ClientClose(q)
    \/ \E t \in Threads, q \in Queues : ThreadSched(t, q)
    \/ \E t \in Threads : ThreadDestroy(t)
    \/ LoopRun

\* calls that open and destroy channels and connections
Lifecycle(Cs, Cbs) ==
    \/ \E q \in Queues, c \in Cs, cb \in Cbs : ConnectBegin(q, c, cb)
    \/ \E t \in Threads, c \in Cs, cb \in Cbs : ThreadNew(t, c, cb)
    \/ \E t \in Threads, c \in Cs : ThreadKill(t, c)

\* The environment of Spec: two channels, opened with the default
\* presence_callback=None by one user; events are published from a thread
\* and from the home loop.
Next ==
    \/ nops < MaxOps /\ Lifecycle(Chans, {None}) /\ UNCHANGED auxVars
    \/ nops < MaxOps /\ UNCHANGED auxVars
                     /\ \E t \in Threads, c \in Chans : ThreadDisconnect(t, c, 1)
    \/ nops < MaxOps /\ UNCHANGED auxVars
                     /\ \E t \in Threads, c \in Chans : ThreadPublish(t, c)
    \/ nops < MaxOps /\ (\E c \in Chans : LoopPublish(c)) /\ UNCHANGED auxVars
    \/ Internal({1}) /\ UNCHANGED auxVars

Spec == Init /\ [][Next]_vars

\* The environment of SpecPresence: two channels, opened with or without a
\* presence callback by two principals, one of them without a pk; the
\* presence callback returns an empty result, so that nothing is published.
NextPresence ==
    \/ nops < MaxCalls /\ Lifecycle(Chans, CbOpt) /\ UNCHANGED auxVars
    \/ nops < MaxCalls /\ UNCHANGED auxVars
                       /\ \E t \in Threads, c \in Chans, u \in {UserId(p) : p \in Principals} :
                             ThreadDisconnect(t, c, u)
    \/ (\E task \in pres : PresRun(task, "empty")) /\ UNCHANGED auxVars
    \/ Internal(Principals) /\ UNCHANGED auxVars

SpecPresence == Init /\ [][NextPresence]_vars

\* The environment of SpecStream: connections whose response may be closed
\* before it is iterated; streams end by a sentinel of disconnect, by the
\* client or unstarted; events are published on the home loop.
NextStream ==
    \/ nops < MaxStream /\ UNCHANGED auxVars
                        /\ \E q \in Queues, c \in Chans : ConnectBegin(q, c, None)
    \/ nops < MaxStream /\ UNCHANGED auxVars
                        /\ \E t \in Threads, c \in Chans : ThreadDisconnect(t, c, 1)
    \/ nops < MaxStream /\ (\E c \in Chans : LoopPublish(c)) /\ UNCHANGED auxVars
    \/ (\E q \in Queues : ConnectReturn(q, 1)) /\ UNCHANGED auxVars
    \/ (\E q \in Queues : StreamStart(q)) /\ UNCHANGED auxVars
    \/ (\E q \in Queues : ResponseClose(q)) /\ UNCHANGED auxVars
    \/ (\E q \in Queues : StreamNext(q)) /\ UNCHANGED auxVars
    \/ (\E q \in Queues : ClientClose(q)) /\ UNCHANGED auxVars
    \/ (\E t \in Threads, q \in Queues : ThreadSched(t, q)) /\ UNCHANGED auxVars
    \/ LoopRun /\ UNCHANGED auxVars

SpecStream == Init /\ [][NextStream]_vars

\* history of a disconnect call: the queues registered for the user on the
\* channel at the call
RecordDisconnect(c, u) ==
    /\ closing' = closing \cup {q \in Members(c) : q \in DOMAIN queue_info /\ queue_info[q] = u}
    /\ UNCHANGED <<closed, ready2, misput, lockVars>>

\* The environment of SpecDisconnect: two channels, two users; connections
\* are closed by disconnect, called on a thread or on the home loop, and by
\* the client; no channel is killed.
NextDisconnect ==
    \/ nops < MaxDisc /\ UNCHANGED auxVars
                      /\ \E q \in Queues, c \in Chans : ConnectBegin(q, c, None)
    \/ nops < MaxDisc /\ \E t \in Threads, c \in Chans, u \in {UserId(p) : p \in Principals} :
                            ThreadDisconnect(t, c, u) /\ RecordDisconnect(c, u)
    \/ nops < MaxDisc /\ \E c \in Chans, u \in {UserId(p) : p \in Principals} :
                            LoopDisconnect(c, u) /\ RecordDisconnect(c, u)
    \/ (\E q \in Queues, p \in Principals : ConnectResume(q, p)) /\ UNCHANGED auxVars
    \/ (\E q \in Queues : StreamNext(q)) /\ UNCHANGED auxVars
    \/ (\E q \in Queues : ClientClose(q)) /\ UNCHANGED auxVars
    \/ (\E t \in Threads, q \in Queues : ThreadSched(t, q)) /\ UNCHANGED auxVars
    \/ LoopRun /\ UNCHANGED auxVars

SpecDisconnect == Init /\ [][NextDisconnect]_vars

\* The environment of SpecLive: one channel with a presence callback that
\* returns markup, two users, disconnect called on a thread. The thread
\* goes on, the loop runs what is posted to it, the server keeps asking
\* every open stream for its next item and the worker pool finishes every
\* callback: these steps are weakly fair. The clients stay.
\* A connection is accepted when the loop has served the earlier ones (no
\* connect at its await, no callback outstanding, every queue drained);
\* disconnect is called at any time.
Quiet ==
    /\ pres = {}
    /\ \A r \in Queues : queue[r] = <<>> /\ conn[r].st # "auser"

LiveSched  == (\E t \in Threads, q \in Queues : ThreadSched(t, q)) /\ UNCHANGED auxVars
LiveRun    == LoopRun /\ UNCHANGED auxVars
LiveStream == (\E q \in Queues : StreamNext(q)) /\ UNCHANGED auxVars
LivePres   == (\E task \in pres : PresRun(task, "html")) /\ UNCHANGED auxVars
LiveResume == (\E q \in Queues, p \in Principals : ConnectResume(q, p)) /\ UNCHANGED auxVars

NextLive ==
    \/ nops < MaxLive /\ Quiet /\ UNCHANGED auxVars
                      /\ \E q \in Queues : ConnectBegin(q, "a", "f")
    \/ nops < MaxLive /\ (\E t \in Threads : ThreadDisconnect(t, "a", 1)) /\ UNCHANGED auxVars
    \/ LiveSched
    \/ LiveRun
    \/ LiveStream
    \/ LivePres
    \/ LiveResume

SpecLive ==
    /\ Init /\ [][NextLive]_vars
    /\ WF_vars(LiveSched) /\ WF_vars(LiveRun) /\ WF_vars(LiveStream)
    /\ WF_vars(LivePres) /\ WF_vars(LiveResume)

\* The environment of SpecLoop: one channel, connections that end by the
\* client or unstarted, a thread that publishes, disconnects and kills, and
\* a home loop that is closed when its connections have ended.
NextLoop ==
    \/ nops < MaxLoop /\ (\E q \in Queues : ConnectBegin(q, "a", None)) /\ UNCHANGED auxVars
    \/ nops < MaxLoop /\ (\E t \in Threads : ThreadPublish(t, "a")) /\ UNCHANGED auxVars
    \/ nops < MaxLoop /\ (\E t \in Threads : ThreadDisconnect(t, "a", 1)) /\ UNCHANGED auxVars
    \/ nops < MaxLoop /\ (\E t \in Threads : ThreadKill(t, "a")) /\ UNCHANGED auxVars
    \/ (\E q \in Queues : ConnectReturn(q, 1)) /\ UNCHANGED auxVars
    \/ (\E q \in Queues : StreamStart(q)) /\ UNCHANGED auxVars
    \/ (\E q \in Queues : ResponseClose(q)) /\ UNCHANGED auxVars
    \/ (\E q \in Queues : StreamNext(q)) /\ UNCHANGED auxVars
    \/ (\E q \in Queues : ClientClose(q)) /\ UNCHANGED auxVars
    \/ (\E t \in Threads, q \in Queues : ThreadSched(t, q)) /\ UNCHANGED auxVars
    \/ (\E t \in Threads : ThreadSchedRaise(t)) /\ UNCHANGED auxVars
    \/ (\E t \in Threads : ThreadDestroy(t)) /\ UNCHANGED auxVars
    \/ LoopRun /\ UNCHANGED auxVars
    \/ LoopClose

SpecLoop == Init /\ [][NextLoop]_vars

\* The environment of SpecNotify: one channel with a presence callback that
\* returns markup or raises, two users, events published on the home loop;
\* the client may go away. A connection is accepted when the loop has served
\* the earlier ones.
NextNotify ==
    \/ nops < MaxNotify /\ Quiet /\ UNCHANGED auxVars
                        /\ \E q \in Queues : ConnectBegin(q, "a", "f")
    \/ nops < MaxNotify /\ LoopPublish("a") /\ UNCHANGED auxVars
    \/ (\E q \in Queues, p \in Principals : ConnectResume(q, p)) /\ UNCHANGED auxVars
    \/ (\E q \in Queues : StreamNext(q)) /\ UNCHANGED auxVars
    \/ (\E q \in Queues : ClientClose(q)) /\ UNCHANGED auxVars
    \/ (\E task \in pres : PresRun(task, "html")) /\ UNCHANGED auxVars
    \/ (\E task \in pres : PresRun(task, "raise")) /\ UNCHANGED auxVars

SpecNotify == Init /\ [][NextNotify]_vars

\* The environment of SpecLoops: connections are accepted on two loops, each
\* connect recording its own loop; events are published by handlers that
\* run on either loop.
NextLoops ==
    \/ nops < MaxLoops /\ UNCHANGED auxVars
                       /\ \E l \in Loops, q \in Queues : ConnectOn(l, q, "a", None)
    \/ nops < MaxLoops /\ \E l \in Loops : PublishOn(l, "a")
    \/ (\E q \in Queues : ConnectResume(q, 1)) /\ UNCHANGED auxVars
    \/ (\E q \in Queues : StreamNext(q)) /\ UNCHANGED auxVars
    \/ (\E q \in Queues : ClientClose(q)) /\ UNCHANGED auxVars
    \/ \E l \in Loops : LoopRunOn(l)

SpecLoops == Init /\ [][NextLoops]_vars

\* The environment of SpecAtomic: one channel, which every connect opens
\* with the presence callback f and which a thread kills; the callback
\* returns an empty result.
NextAtomic ==
    \/ nops < MaxAtomic /\ (\E q \in Queues : ConnectBegin(q, "a", "f")) /\ UNCHANGED auxVars
    \/ nops < MaxAtomic /\ (\E t \in Threads : ThreadKill(t, "a")) /\ UNCHANGED auxVars
    \/ (\E q \in Queues : ConnectResume(q, 1)) /\ UNCHANGED auxVars
    \/ (\E q \in Queues : StreamNext(q)) /\ UNCHANGED auxVars
    \/ (\E q \in Queues : ClientClose(q)) /\ UNCHANGED auxVars
    \/ (\E t \in Threads, q \in Queues : ThreadSched(t, q)) /\ UNCHANGED auxVars
    \/ (\E t \in Threads : ThreadDestroy(t)) /\ UNCHANGED auxVars
    \/ LoopRun /\ UNCHANGED auxVars
    \/ (\E task \in pres : PresRun(task, "empty")) /\ UNCHANGED auxVars

SpecAtomic == Init /\ [][NextAtomic]_vars

\* The environment of SpecShapes: one channel with a presence callback
\* that returns a result of any accepted shape; two users, whose clients
\* stay. A connection is accepted when the loop has served the earlier ones.
NextShapes ==
    \/ nops < MaxShapes /\ Quiet /\ UNCHANGED auxVars
                        /\ \E q \in Queues : ConnectBegin(q, "a", "f")
    \/ (\E q \in Queues, p \in Principals : ConnectResume(q, p)) /\ UNCHANGED auxVars
    \/ (\E q \in Queues : StreamNext(q)) /\ UNCHANGED auxVars
    \/ (\E task \in pres, res \in Results \ {"raise"} : PresRun(task, res))
          /\ UNCHANGED auxVars

SpecShapes == Init /\ [][NextShapes]_vars

\* The environment of SpecHeartbeat: one channel and one user; events are
\* published and disconnect is called on the home loop; a stream whose
\* queue stays empty for the heartbeat interval yields a heartbeat; the
\* client may go away.
NextHeartbeat ==
    \/ nops < MaxHeart /\ (\E q \in Queues : ConnectBegin(q, "a", None)) /\ UNCHANGED auxVars
    \/ nops < MaxHeart /\ LoopPublish("a") /\ UNCHANGED auxVars
    \/ nops < MaxHeart /\ LoopDisconnect("a", 1) /\ UNCHANGED auxVars
    \/ (\E q \in Queues : ConnectResume(q, 1)) /\ UNCHANGED auxVars
    \/ (\E q \in Queues : StreamNext(q)) /\ UNCHANGED auxVars
    \/ (\E q \in Queues : StreamTimeout(q)) /\ UNCHANGED auxVars
    \/ (\E q \in Queues : ClientClose(q)) /\ UNCHANGED auxVars

SpecHeartbeat == Init /\ [][NextHeartbeat]_vars

\* The environment of SpecLock: one channel with a presence callback and
\* one user; the loop and the worker thread that runs the callbacks execute
\* their registry calls statement by statement and contend for the lock. A
\* callback may call get_users, publish or kill on its channel. Each
\* context goes on with its statements, and the worker pool and the loop
\* start what is waiting for them: these steps are weakly fair. A
\* connection is accepted when the earlier ones have been served; the
\* client goes away at any time.
LockQuiet ==
    /\ pres = {} /\ back = {} /\ ready = <<>>
    /\ \A p \in Procs : proc[p].steps = <<>>
    /\ \A r \in Queues : conn[r].st # "auser"

LockStart ==
    \/ \E q \in Queues : LockResume(q, 1)
    \/ \E task \in back : LockDispatch(task)
    \/ LockLoopRun
    \/ \E task \in pres, beh \in Behaviours : LockCallback(task, beh)

NextLock ==
    \/ nops < MaxLock /\ LockQuiet /\ \E q \in Queues : LockConnect(q, "a", "f")
    \/ \E q \in Queues : LockExit(q)
    \/ LockStart
    \/ Run(LoopProc)
    \/ Run(Worker)

SpecLock ==
    /\ Init /\ [][NextLock]_vars
    /\ WF_vars(Run(LoopProc)) /\ WF_vars(Run(Worker)) /\ WF_vars(LockStart)

\* ================================================================ claims
Frames == DOMAIN pubs

\* the items of s that precede its first Close sentinel
BeforeClose(s) ==
    IF CLOSE \in Range(s) THEN SubSeq(s, 1, Pos(s, CLOSE) - 1) ELSE s

\* a put of item x on queue q that a publishing thread has still to post,
\* or that is posted and has still to run on the loop
Pending(q, x) ==
    \/ \E t \in Threads : thr[t].pc = "sched" /\ thr[t].item = x /\ q \in thr[t].todo
    \/ \E i \in 1..Len(ready) : ready[i] = [q |-> q, item |-> x]

Before(s, x, y) == Pos(s, x) < Pos(s, y)

\* ---------------------------------------------------------------- C1
\* C1 as stated: every queue in the channel's subscriber set at the publish
\* call has the frame yielded by its stream. A stream that has ended yields
\* nothing more, so it must have yielded every such frame.
C1_EveryMemberYields ==
    \A f \in Frames : \A q \in pubs[f].qs :
        conn[q].st = "done" => f \in Range(out[q])

\* C1 amended: every queue in the subscriber set at the call has the frame
\* put on it exactly once, at the latest when the thread has posted and the
\* loop has run the call's callbacks; a stream that is open has yielded, in
\* order, everything put on its queue but what is still waiting in it.
C1_EveryMemberEnqueued ==
    /\ \A f \in Frames : \A q \in pubs[f].qs :
          IF Pending(q, f)
          THEN f \notin Range(enq[q])
          ELSE Cardinality({i \in 1..Len(enq[q]) : enq[q][i] = f}) = 1
    /\ \A q \in Queues : conn[q].st = "open" => enq[q] = out[q] \o queue[q]

\* a frame published from a thread to two subscribers and yielded by both
C1_Witness ==
    \E f \in Frames :
        /\ pubs[f].ctx \in Threads
        /\ Cardinality(pubs[f].qs) = 2
        /\ \A q \in pubs[f].qs : f \in Range(out[q])

\* ---------------------------------------------------------------- C2
\* C2: channel isolation: a frame is put, or is waiting to be put, only on
\* queues that were in its channel's subscriber set at the publish call.
C2_Isolation ==
    \A q \in Queues :
        /\ \A i \in 1..Len(enq[q]) :
              enq[q][i] # CLOSE => enq[q][i] \in Frames /\ q \in pubs[enq[q][i]].qs
        /\ \A i \in 1..Len(ready) :
              ready[i].item # CLOSE =>
                 ready[i].item \in Frames /\ ready[i].q \in pubs[ready[i].item].qs
        /\ \A t \in Threads :
              thr[t].op = "pub" =>
                 thr[t].item \in Frames /\ thr[t].todo \subseteq pubs[thr[t].item].qs

\* a frame has reached its channel while another channel has a subscriber
\* and a subscriber that joined the frame's channel after the call is open
C2_Witness ==
    \E f \in Frames, q1, q2, q3 \in Queues :
        /\ q1 \in pubs[f].qs /\ f \in Range(enq[q1])
        /\ q2 \in Members(pubs[f].ch) \ pubs[f].qs
        /\ \E c \in Chans \ {pubs[f].ch} : q3 \in Members(c)

\* ---------------------------------------------------------------- C3
\* C3: per-context ordering: two publishes of one context (the home loop or
\* one thread) to one channel are put on, and yielded from, every queue
\* that gets both in the order of the calls.
Earlier(f, g) == f[2] = "pub" /\ g[2] = "pub" /\ f[3] < g[3]

C3_ContextOrder ==
    \A f, g \in Frames :
        (pubs[f].ctx = pubs[g].ctx /\ pubs[f].ch = pubs[g].ch /\ Earlier(f, g)) =>
            \A q \in Queues :
                /\ {f, g} \subseteq Range(enq[q]) => Before(enq[q], f, g)
                /\ {f, g} \subseteq Range(out[q]) => Before(out[q], f, g)

\* a stream has yielded two frames that one thread published
C3_Witness ==
    \E f, g \in Frames, q \in Queues :
        /\ pubs[f].ctx \in Threads /\ pubs[g].ctx = pubs[f].ctx
        /\ Earlier(f, g)
        /\ {f, g} \subseteq Range(out[q])

\* ---------------------------------------------------------------- C4
\* C4: publish-epoch atomicity: two subscribers that both get the frames of
\* two publish calls to one channel get them in the same relative order.
C4_SameOrderEverywhere ==
    \A f, g \in Frames : \A q, r \in Queues :
        ( /\ f # g /\ pubs[f].ch = pubs[g].ch
          /\ {f, g} \subseteq Range(enq[q])
          /\ {f, g} \subseteq Range(enq[r]) ) =>
            (Before(enq[q], f, g) <=> Before(enq[r], f, g))

\* ---------------------------------------------------------------- C5
\* C5: graceful drain: a stream that ended by dequeuing the Close sentinel
\* has yielded, in order, exactly the frames put on its queue before the
\* sentinel.
C5_GracefulDrain ==
    \A q \in Queues : conn[q].exit = "close" => out[q] = BeforeClose(enq[q])

\* a stream that was closed by a sentinel after it had drained two frames
C5_Witness ==
    \E q \in Queues : conn[q].exit = "close" /\ Len(out[q]) = 2

\* ---------------------------------------------------------------- C6
\* C6: every subscriber that registry.destroy unregisters in kill has a
\* Close sentinel in its queue or on its way to it, or its stream has ended.
C6_KilledAreClosed ==
    \A q \in destroyed :
        \/ conn[q].st = "done"
        \/ CLOSE \in Range(queue[q])
        \/ Pending(q, CLOSE)

\* ---------------------------------------------------------------- C7
\* C7: the state in which kill returns: the channel has no connected user
\* ids, is not listed and has no config, and a create_channel with no
\* callback then yields a channel without presence callback.
KillPostState(c) ==
    /\ \A order \in UserOrders(c) : get_users(c, order) = <<>>
    /\ c \notin get_channels
    /\ c \notin DOMAIN channel_config
    /\ get_config(c) = None
    /\ c \in DOMAIN create_config(c, None) /\ create_config(c, None)[c] = None

C7_KillPostState ==
    [][\A t \in Threads, c \in Chans :
          (thr[t].ch = c /\ ThreadDestroy(t)) => KillPostState(c)']_vars

\* kill has destroyed a channel that had a subscriber and a presence
\* callback, and the channel is gone
C7_Witness ==
    \E q \in destroyed, task \in pres :
        /\ task.key = <<q, "conn">>
        /\ KillPostState(task.ch)
        /\ \A t \in Threads : thr[t].op = "idle"

\* ---------------------------------------------------------------- C8
\* C8: config immutability: a step that leaves a channel in existence
\* leaves its stored presence callback as it was.
C8_ConfigImmutable ==
    [][\A c \in Chans :
          (c \in DOMAIN channels /\ c \in DOMAIN channels') =>
             /\ (c \in DOMAIN channel_config') = (c \in DOMAIN channel_config)
             /\ get_config(c)' = get_config(c)]_vars

\* a connection was opened with no callback on a channel whose config holds
\* the callback f
C8_Witness ==
    \E q \in Queues :
        /\ conn[q].st = "open" /\ conn[q].cb = None
        /\ q \in Members(conn[q].ch)
        /\ get_config(conn[q].ch) = "f"

\* ---------------------------------------------------------------- C9
\* C9: empty-channel cleanup: a listed channel that has had a subscriber
\* has one: removing the last subscriber unlists the channel.
C9_EmptyChannelCleanup ==
    \A c \in get_channels : hadSub[c] => Members(c) # {}

\* a stream has ended, no channel was killed, and no channel is listed
C9_Witness ==
    /\ \E q \in Queues : conn[q].st = "done"
    /\ destroyed = {}
    /\ get_channels = {}

\* ---------------------------------------------------------------- C10
\* C10: connected_user_ids has one entry per registered subscriber, a user
\* with k connections k times; the list given to the presence callback
\* holds each user id registered at that time once, and no other id.
Count(s, x) == Cardinality({i \in 1..Len(s) : s[i] = x})

C10_PresenceDedup ==
    /\ \A c \in Chans : \A order \in UserOrders(c) :
          LET ids == get_users(c, order)
          IN /\ Len(ids) = Cardinality(Members(c))
             /\ \A u \in Range(ids) : Count(ids, u) = Cardinality(get_queues_for_user(c, u))
    /\ \A task \in pres :
          /\ \A u \in Range(task.uids) : Count(task.uids, u) = 1
          /\ Range(task.uids) = {task.at[q] : q \in DOMAIN task.at}

\* a callback is given one id for a user who has two connections
C10_Witness ==
    \E task \in pres :
        /\ Cardinality(DOMAIN task.at) = 2
        /\ Len(task.uids) = 1

\* ---------------------------------------------------------------- C11
\* C11: cleanup always runs: a stream that has ended, in whatever way, has
\* its queue in no channel's subscriber set and in no user association.
Unregistered(q) ==
    /\ q \notin DOMAIN queue_info
    /\ \A c \in DOMAIN channels : q \notin channels[c]

C11_EndedStreamsUnregistered ==
    \A q \in Queues : conn[q].st = "done" => Unregistered(q)

\* ---------------------------------------------------------------- C12
\* C12: the queues that get, or are about to get, a Close sentinel of
\* disconnect are exactly the queues that were registered for the call's
\* user on the call's channel at the call; a call for a user without a
\* registered queue on the channel, or without a usable home loop, changes
\* nothing.
Sentinelled == {q \in Queues : CLOSE \in Range(enq[q]) \/ Pending(q, CLOSE)}

C12_SentinelsOnlyForUser ==
    /\ [](Sentinelled = closing)
    /\ [][\A t \in Threads, c \in Chans, u \in {0, 1} :
            ( /\ ThreadDisconnect(t, c, u) \/ LoopDisconnect(c, u)
              /\ \/ {q \in Members(c) : queue_info[q] = u} = {}
                 \/ loop = NoLoop ) =>
               UNCHANGED <<regVars, queue, ready, conn, out, thr, pres, enq,
                           closing>>]_vars

\* user 1 was disconnected from channel a and has got the sentinel there,
\* while user 0 on a and user 1 on b are registered and have got none
C12_Witness ==
    \E q1, q2, q3 \in Queues :
        /\ q1 \in closing /\ CLOSE \in Range(enq[q1])
        /\ q2 \in Members("a") /\ queue_info[q2] = 0
        /\ q3 \in Members("b") /\ queue_info[q3] = 1
        /\ {q2, q3} \cap Sentinelled = {}

\* ---------------------------------------------------------------- C13
\* C13: forced disconnect completes: an open stream that has a Close
\* sentinel of disconnect in its queue or on its way to it eventually ends
\* and is unregistered; the presence dispatch that its exit starts is
\* computed without the closed connection, and its payload eventually is on
\* the queue of every subscriber that was registered then and still is.
ExitFrame(q, r) ==
    \E i \in 1..Len(enq[r]) :
        enq[r][i][1] = "el" /\ enq[r][i][3] = q /\ enq[r][i][4] = "exit"

\* a disconnect call leaves at most MaxLive - 1 calls for connections
LiveQueues == 1..(MaxLive - 1)

C13_DisconnectCompletes ==
    /\ \A q \in LiveQueues :
          (conn[q].st = "open" /\ (Pending(q, CLOSE) \/ CLOSE \in Range(queue[q])))
             ~> (conn[q].st = "done" /\ Unregistered(q))
    /\ [](\A task \in pres :
            task.key[2] = "exit" => task.key[1] \notin DOMAIN task.at)
    /\ \A q, r \in LiveQueues :
          (\E task \in pres : task.key = <<q, "exit">> /\ r \in DOMAIN task.at)
             ~> (r \notin Members("a") \/ ExitFrame(q, r))

\* a stream was ended by the sentinel of a disconnect and a subscriber that
\* is still open has the presence payload of that exit
C13_Witness ==
    \E q, r \in Queues :
        /\ conn[q].exit = "close"
        /\ conn[r].st = "open" /\ r \in Members("a")
        /\ ExitFrame(q, r)

\* ---------------------------------------------------------------- C14
\* C14: stale or missing home loop: no publish, disconnect or kill ends by
\* raising, whenever the loop is closed.
C14_NeverRaises ==
    \A t \in Threads : thr[t].pc # "RuntimeError"

\* ---------------------------------------------------------------- C15
\* C15: callback failure is contained: a callback that may still raise was
\* handed to a worker by a lifecycle event that has completed (the connect
\* has registered the subscriber and returned its stream, the exit has
\* unregistered it), and the step in which it raises leaves the registry,
\* the connections and the queues as they are.
PresFrame(q, ph, r) ==
    \E i \in 1..Len(enq[r]) :
        enq[r][i][1] = "el" /\ enq[r][i][3] = q /\ enq[r][i][4] = ph

C16_NoCallbackNoPresence ==
    \A task \in pres :
        (task.key[2] = "conn" /\ conn[task.key[1]].st = "open") =>
            conn[task.key[1]].cb # None

\* ---------------------------------------------------------------- C17
\* C17: single-owner queue mutation: every put on a subscriber queue is
\* executed on the loop that runs the subscriber's connection.
C17_SingleOwner ==
    misput = {}

\* ---------------------------------------------------------------- C18
\* C18: the presence callback never runs on the loop: every dispatch is
\* started where a loop is running and hands the callback to a worker;
\* only without a running loop would it run inline.
C18_CallbackOffLoop ==
    /\ \A task \in pres : task.ctx = "worker"
    /\ \A l \in Loops : PresenceContext(l) = "worker"
    /\ PresenceContext(NoLoop) = "inline"

\* while the callback for the connect of q is outstanding, the stream of q
\* has yielded an event that was published on the loop
C18_Witness ==
    \E task \in pres, q \in Queues :
        /\ task.key = <<q, "conn">>
        /\ \E i \in 1..Len(out[q]) : out[q][i][1] = "ev"

\* ---------------------------------------------------------------- C19
\* C19: presence trigger on exit: the step in which a stream exits starts a
\* presence dispatch if and only if, after the unregistration, the channel
\* has a configured callback and at least one subscriber.
C19_ExitTrigger ==
    [][\A q \in Queues : \A c \in {conn[q].ch} :
          (conn[q].st = "open" /\ conn'[q].st = "done") =>
             ( (\E task \in pres' \ pres : task.key = <<q, "exit">>)
               <=>
               ( /\ c \in DOMAIN channel_config' /\ channel_config'[c] # None
                 /\ c \in DOMAIN channels' /\ channels'[c] # {} ) )]_vars

\* the exit of one of two subscribers of a channel with a callback has
\* started a dispatch, and the exit of the last one has started none
C19_Witness ==
    \E q, r \in Queues :
        /\ q # r /\ conn[q].st = "done" /\ conn[r].st = "done"
        /\ \E task \in pres : task.key = <<q, "exit">>
        /\ \A task \in pres : task.key # <<r, "exit">>
        /\ get_channels = {}

\* ---------------------------------------------------------------- C20
\* C20: presence reflects the updated membership: when no connect and no
\* presence dispatch is outstanding, the last presence payload put on the
\* queue of each subscriber was computed from the user ids that are
\* connected now.
LastPresence(r) ==
    LET P == {i \in 1..Len(enq[r]) : enq[r][i][1] = "el"}
    IN enq[r][CHOOSE i \in P : \A j \in P : j <= i]

C20_LastPresenceIsCurrent ==
    (pres = {} /\ \A q \in Queues : conn[q].st # "auser") =>
       \A r \in Members("a") :
          (\E i \in 1..Len(enq[r]) : enq[r][i][1] = "el") =>
             LastPresence(r)[2] \in
                {Code(Dedup(get_users("a", o))) : o \in UserOrders("a")}

\* ---------------------------------------------------------------- C27
\* C27: registry consistency: the queues that have a user id are exactly the
\* queues in some channel's subscriber set, no queue is in two channels'
\* subscriber sets, and connected_user_ids has as many entries as the
\* channel has subscribers.
C27_RegistryConsistent ==
    /\ DOMAIN queue_info = UNION {channels[c] : c \in DOMAIN channels}
    /\ \A c, d \in DOMAIN channels : c # d => channels[c] \cap channels[d] = {}
    /\ \A c \in Chans :
          /\ \A q \in Members(c) : q \in DOMAIN queue_info
          /\ \A order \in Orders(Members(c)) :
                Len(get_users(c, order)) = Cardinality(Members(c))

\* kill has unregistered a subscriber whose stream has ended since, while
\* both channels have a subscriber
C27_Witness ==
    /\ \E q \in destroyed : conn[q].st = "done"
    /\ \A c \in Chans : Members(c) # {}

\* ---------------------------------------------------------------- C28
\* C28: no config outlives its channel: every channel name that has a
\* stored config is a listed channel.
C28_ConfigOnlyForChannels ==
    DOMAIN channel_config \subseteq get_channels

\* ---------------------------------------------------------------- C25
\* C25: the user ids given to the presence callback are in ascending order.
C25_UidsSorted ==
    \A task \in pres :
        \A i, j \in 1..Len(task.uids) : i < j => task.uids[i] < task.uids[j]

\* ---------------------------------------------------------------- C26
\* C26: a channel is removed only by its own events: the exit of a stream
\* whose queue is not in the subscriber set of the channel of its name (its
\* own incarnation was killed) leaves that channel listed, with the
\* subscribers it has.
C26_LateCleanupKeepsChannel ==
    [][\A q \in Queues : \A c \in {conn[q].ch} :
          ( /\ conn[q].st = "open" /\ conn'[q].st = "done"
            /\ c \in DOMAIN channels /\ q \notin channels[c] ) =>
             (c \in DOMAIN channels' /\ channels'[c] = channels[c])]_vars

\* ---------------------------------------------------------------- C23
\* C23: publish and close leave the registry unchanged: a publish or
\* disconnect call, the posting of its callbacks and the puts that the loop
\* runs leave the channels, the subscribers, the configs and the recorded
\* loop as they are; a call on a channel without subscribers puts and posts
\* nothing.
C23_PublishCloseFrame ==
    [][/\ \A t \in Threads, c \in Chans :
            (ThreadPublish(t, c) \/ LoopPublish(c) \/ ThreadDisconnect(t, c, 1)) =>
               /\ UNCHANGED regVars
               /\ Members(c) = {} => UNCHANGED <<queue, ready, enq, thr>>
       /\ \A t \in Threads, q \in Queues :
            (thr[t].op \in {"pub", "disc"} /\ ThreadSched(t, q)) => UNCHANGED regVars
       /\ LoopRun => UNCHANGED regVars]_vars

\* an open, registered subscriber has had a published frame and a Close
\* sentinel put on its queue, and the other channel does not exist
C23_Witness ==
    \E q \in Queues :
        /\ conn[q].st = "open" /\ q \in Members(conn[q].ch)
        /\ \E i \in 1..Len(enq[q]) : enq[q][i][1] = "ev"
        /\ CLOSE \in Range(enq[q])
        /\ get_channels = {conn[q].ch}

\* ---------------------------------------------------------------- C29
\* C29: connect is atomic with respect to channel creation: where every
\* connect passes the callback f, so that whichever call creates the channel
\* creates it with f, the channel of every open, registered subscriber has
\* the callback that the subscriber's connect passed.
C29_ConnectKeepsCallback ==
    \A q \in Queues :
        (conn[q].st = "open" /\ q \in Members(conn[q].ch)) =>
            get_config(conn[q].ch) = conn[q].cb

\* ---------------------------------------------------------------- C22
\* C22: presence result normalization: when the callback returns, the queue
\* of every subscriber of the channel gets one elements frame for markup,
\* one signals frame for a map or a pair without markup, the elements frame
\* and then the signals frame for a pair of both, and nothing for an absent
\* piece; no other queue gets anything; a stream that yields both frames of
\* a dispatch yields the elements frame first.
Expected(task, res) ==
    LET el  == <<"el">> \o PresId(task)
        sig == <<"sig">> \o PresId(task)
    IN CASE res = "html"     -> <<el>>
         [] res = "htmlnone" -> <<el>>
         [] res = "dict"     -> <<sig>>
         [] res = "nonesig"  -> <<sig>>
         [] res = "both"     -> <<el, sig>>
         [] res = "empty"    -> <<>>

C22_ResultNormalization ==
    /\ [][\A task \in pres, res \in Results \ {"raise"} :
            PresRun(task, res) =>
               \A q \in Queues :
                  enq'[q] = enq[q] \o (IF q \in Members(task.ch)
                                       THEN Expected(task, res) ELSE <<>>)]_vars
    /\ [](\A q \in Queues : \A i, j \in 1..Len(out[q]) :
            ( /\ out[q][i][1] = "el" /\ out[q][j][1] = "sig"
              /\ Tail(out[q][i]) = Tail(out[q][j]) ) => i < j)

\* a stream has yielded the elements frame and the signals frame of one
\* dispatch and, before them, the signals frame of another
C22_Witness ==
    \E q \in Queues : \E i \in 2..(Len(out[q]) - 1) :
        /\ out[q][i - 1][1] = "sig"
        /\ out[q][i][1] = "el" /\ out[q][i + 1][1] = "sig"
        /\ Tail(out[q][i]) = Tail(out[q][i + 1])

\* ---------------------------------------------------------------- C21
\* C21: stream driver output: what an open stream has yielded, heartbeats
\* left out, followed by what waits in its queue is what was put on the
\* queue; a stream ended by the sentinel has yielded, heartbeats left out,
\* exactly the frames put before the first sentinel, and a stream ended by
\* the client a prefix of them; a heartbeat is yielded only when the queue
\* is empty, and the stream then waits again with its queue untouched; a
\* stream that has ended, or that ends in this step, yields nothing.
NonBeat(s) == SelectSeq(s, LAMBDA x : x # HEARTBEAT)

IsPrefix(s, t) == Len(s) <= Len(t) /\ s = SubSeq(t, 1, Len(s))

C21_StreamOutput ==
    /\ [](\A q \in Queues :
            /\ conn[q].st = "open" => NonBeat(out[q]) \o queue[q] = enq[q]
            /\ conn[q].exit = "close" => NonBeat(out[q]) = BeforeClose(enq[q])
            /\ conn[q].exit = "cancel" => IsPrefix(NonBeat(out[q]), BeforeClose(enq[q]))
            /\ CLOSE \notin Range(out[q]))
    /\ [][\A q \in Queues :
            /\ (out'[q] # out[q] /\ out'[q][Len(out'[q])] = HEARTBEAT) =>
                  /\ queue[q] = <<>> /\ queue'[q] = <<>>
                  /\ conn'[q].st = "open"
            /\ (conn[q].st = "done" \/ conn'[q].st = "done") => out'[q] = out[q]]_vars

\* a stream that was ended by the sentinel has yielded a heartbeat, then a
\* published frame, then a heartbeat
C21_Witness ==
    \E q \in Queues :
        /\ conn[q].exit = "close"
        /\ Len(out[q]) = 3
        /\ out[q][1] = HEARTBEAT /\ out[q][2][1] = "ev" /\ out[q][3] = HEARTBEAT

\* ---------------------------------------------------------------- C24
\* C24: lock discipline: a context that holds the registry lock is inside a
\* registry method, at a statement that reads or writes the maps or at the
\* end of the with block, and the maps are read and written only there; so
\* the lock is not held by the context that enqueues, hands over a callback
\* or returns from one. Every call of the loop and every callback, whatever
\* it calls on its channel, comes to its end, and so has released the lock.
C24_LockDiscipline ==
    /\ [](\A p \in Procs :
            /\ lock = p => At(p, Writes \cup Reads \cup {"rel"})
            /\ At(p, Writes \cup Reads) => lock = p)
    /\ \A p \in Procs : (proc[p].steps # <<>>) ~> (proc[p].steps = <<>>)

\* a callback that calls kill on its channel waits for the lock, which the
\* loop holds
C24_Witness ==
    /\ lock = LoopProc
    /\ At(Worker, {"acq"})
    /\ \E i \in 1..Len(proc[Worker].steps) : proc[Worker].steps[i].k = "destroy"

====
